---- MODULE Spec2Model ----
(***************************************************************************)
(* Model of gtp_connection.py: the GTP command handlers that drive the     *)
(* boolean negamax solver (negamax_boolean), its transposition table and   *)
(* history-heuristic table, and the SIGALRM deadline of the solve command. *)
(*                                                                         *)
(* The solver is modelled as a step machine over an explicit stack of      *)
(* frames, one step per statement that touches shared state, so that the   *)
(* asynchronous TimeoutError can arrive between any two statements.        *)
(* The board (board.py / board_util.py) is not part of the source file;    *)
(* it is modelled as a NoGo board (no capture, no suicide, no pass).       *)
(***************************************************************************)
EXTENDS Integers, Sequences, FiniteSets, TLC

\* ------------------------------------------------------------------ bounds
\* number of solver invocations (solve + genmove) explored in one behaviour
MaxSearches == 2
\* number of solve commands cut off by the deadline in one behaviour
MaxTimeouts == 1
\* number of stones placed by play commands in one behaviour
MaxPlays == 1

\* ------------------------------------------------- board collaborator
EMPTY == 0
BLACK == 1
WHITE == 2
\* Python's None for "no move"; board points are numbered from 1
None == 0

\* board sizes a boardsize command is given
Sizes == {1, 2}
\* size of the board handed to GtpConnection.__init__
InitSize == 2
\* size of the board of the late-game searches, and the number of points
\* still empty on it
LateSize == 3
LateEmpty == 5

Points(size) == 1 .. (size * size)

opponent(c) == IF c = BLACK THEN WHITE ELSE BLACK

\* the empty board of the given size, black to move (board.reset)
EmptyBoard(size) ==
    [size |-> size, board |-> [p \in Points(size) |-> EMPTY], current_player |-> BLACK]

Row(p, size) == (p - 1) \div size
Col(p, size) == (p - 1) % size

Neighbors(p, size) ==
    {q \in Points(size) :
        \/ Row(q, size) = Row(p, size) /\ (Col(q, size) - Col(p, size)) \in {-1, 1}
        \/ Col(q, size) = Col(p, size) /\ (Row(q, size) - Row(p, size)) \in {-1, 1}}

\* the stones of colour c next to the set S and not in it
Adjoining(pts, size, S, c) ==
    {q \in Points(size) : pts[q] = c /\ q \notin S
                          /\ \E s \in S : q \in Neighbors(s, size)}

\* S0 grown by adjoining stones of colour c until there is none left (S
\* ranges over the one value of S0, which is thereby computed once)
RECURSIVE Flood(_, _, _, _)
Flood(pts, size, S0, c) ==
    CHOOSE R \in {IF Adjoining(pts, size, S, c) = {} THEN S
                  ELSE Flood(pts, size, S \cup Adjoining(pts, size, S, c), c) :
                  S \in {S0}} : TRUE

\* the block of stones containing the stone at p
BlockOf(pts, size, p) == Flood(pts, size, {p}, pts[p])

HasLiberty(pts, size, p) ==
    \E q \in BlockOf(pts, size, p) : \E n \in Neighbors(q, size) : pts[n] = EMPTY

\* board.is_legal(point, color): NoGo, a stone may neither capture nor be suicide
is_legal(bd, p, c) ==
    /\ p \in Points(bd.size)
    /\ bd.board[p] = EMPTY
    /\ LET pts == [bd.board EXCEPT ![p] = c]
       IN  \A q \in {p} \cup Neighbors(p, bd.size) :
               pts[q] # EMPTY => HasLiberty(pts, bd.size, q)

\* board.play_move(point, color): places the stone and passes the turn when
\* the move is legal, leaves the board alone otherwise
play_move(bd, p, c) ==
    IF is_legal(bd, p, c)
    THEN [bd EXCEPT !.board[p] = c, !.current_player = opponent(c)]
    ELSE bd

\* board.undoMove(point): removes the stone and gives the turn back
undoMove(bd, p) ==
    [bd EXCEPT !.board[p] = EMPTY, !.current_player = opponent(bd.current_player)]

\* board.count_steps(): the number of stones on the board
count_steps(bd) == Cardinality({p \in Points(bd.size) : bd.board[p] # EMPTY})

RECURSIVE Pow3(_)
Pow3(n) == IF n = 0 THEN 1 ELSE 3 * Pow3(n - 1)

RECURSIVE CodeFrom(_, _, _)
CodeFrom(pts, p, n) ==
    IF p > n THEN 0 ELSE pts[p] * Pow3(p - 1) + CodeFrom(pts, p + 1, n)

\* board.code(): canonical key of (board contents, side to move)
code(bd) == 2 * CodeFrom(bd.board, 1, bd.size * bd.size) + (bd.current_player - 1)

\* the legal moves among the points from p on, in point order
RECURSIVE LegalFrom(_, _, _)
LegalFrom(bd, c, p) ==
    IF p > bd.size * bd.size THEN << >>
    ELSE (IF is_legal(bd, p, c) THEN <<p>> ELSE << >>) \o LegalFrom(bd, c, p + 1)

\* GoBoardUtil.generate_legal_moves(board, color), in point order
generate_legal_moves(bd, c) == LegalFrom(bd, c, 1)


\* ------------------------------------------------------------- tables
\* Python's None where a (solved, move) pair is expected
NoResult == << >>

\* TranspositionTable.lookup(code): the stored pair, or None
tt_lookup(table, c) == IF c \in DOMAIN table THEN table[c] ELSE NoResult

\* TranspositionTable.store(code, score, move): unconditional upsert
tt_store(table, c, score, move) ==
    [k \in DOMAIN table \cup {c} |-> IF k = c THEN <<score, move>> ELSE table[k]]

\* HistoryHeuristicTable.lookup(move): the score, 0 when absent
hh_lookup(table, m) == IF m \in DOMAIN table THEN table[m] ELSE 0

\* update that overwrites the score instead of adding to it
hh_update_overwrite(table, m, depth) ==
    [k \in DOMAIN table \cup {m} |->
        IF k = m
        THEN depth * depth
        ELSE table[k]]

\* HistoryHeuristicTable.update(move, depth)
hh_update(table, m, depth) ==
    [k \in DOMAIN table \cup {m} |->
        IF k = m
        THEN IF m \in DOMAIN table THEN table[m] + depth * depth ELSE depth * depth
        ELSE table[k]]

\* InsertDesc for a sort that is not stable: a move goes before the moves of
\* equal score
RECURSIVE InsertDesc_tiesReversed(_, _, _)
InsertDesc_tiesReversed(sorted0, m, table) ==
    CHOOSE r \in
        {IF sorted = << >> THEN <<m>>
         ELSE IF hh_lookup(table, Head(sorted)) > hh_lookup(table, m)
              THEN <<Head(sorted)>> \o InsertDesc_tiesReversed(Tail(sorted), m, table)
              ELSE <<m>> \o sorted : sorted \in {sorted0}} : TRUE

\* insertion of a move into a list sorted by descending score, after the
\* moves of equal score (the sort is stable); sorted ranges over the one value
\* of sorted0, which is thereby computed once
RECURSIVE InsertDesc(_, _, _)
InsertDesc(sorted0, m, table) ==
    CHOOSE r \in
        {IF sorted = << >> THEN <<m>>
         ELSE IF hh_lookup(table, Head(sorted)) >= hh_lookup(table, m)
              THEN <<Head(sorted)>> \o InsertDesc(Tail(sorted), m, table)
              ELSE <<m>> \o sorted : sorted \in {sorted0}} : TRUE

\* moves.sort(key=lambda x: history_table.lookup(x), reverse=True)
RECURSIVE SortByHistory(_, _)
SortByHistory(moves0, table) ==
    CHOOSE r \in
        {IF moves = << >> THEN << >>
         ELSE InsertDesc(SortByHistory(SubSeq(moves, 1, Len(moves) - 1), table),
                         moves[Len(moves)], table) : moves \in {moves0}} : TRUE

\* ------------------------------------------------------------- state
VARIABLES
    board,          \* self.board
    timelimit,      \* self.timelimit
    tt,             \* self.tt: board size -> transposition table
    history_heuristic, \* self.history_heuristic: board size -> history table
    mode,           \* the command being executed: "idle", "solve", "genmove";
                    \* "dead" once an error has ended the process
    stack,          \* the frames of negamax_boolean, the innermost last
    ret,            \* the value the last finished frame returned, None once consumed
    alarm,          \* the SIGALRM timer is armed
    board_copy,     \* solve's snapshot of the board
    color,          \* genmove's argument
    resp,           \* the last response written
    searches,       \* solver invocations so far
    timeouts,       \* solve commands cut off so far
    plays,          \* stones placed by play commands so far
    prev,           \* instrumentation: position and result of the last solver
                    \* invocation that returned
    applied         \* instrumentation: moves applied by the current invocation

vars == <<board, timelimit, tt, history_heuristic, mode, stack, ret, alarm,
          board_copy, color, resp, searches, timeouts, plays, prev, applied>>

\* the tables negamax_boolean is handed: those of the current board size
TT == tt[board.size]
HH == history_heuristic[board.size]

\* a frame of negamax_boolean about to run its first statement; i is the
\* position in moves of the move the for loop is at
Frame(depth) ==
    [pc |-> "lookup", depth |-> depth, moves |-> << >>, i |-> 0, success |-> FALSE]

\* self.respond(...): the text written and the move it names, if any
Response(text, move) == [text |-> text, move |-> move]

Top == stack[Len(stack)]
SetTop(f) == [stack EXCEPT ![Len(stack)] = f]
Pop == SubSeq(stack, 1, Len(stack) - 1)
Searching == mode \in {"solve", "genmove"} /\ stack # << >>

Init ==
    /\ board = EmptyBoard(InitSize)
    /\ timelimit = 1
    /\ tt = [s \in {InitSize} |-> << >>]
    /\ history_heuristic = [s \in {InitSize} |-> << >>]
    /\ mode = "idle"
    /\ stack = << >>
    /\ ret = NoResult
    /\ alarm = FALSE
    /\ board_copy = EmptyBoard(InitSize)
    /\ color = BLACK
    /\ resp = Response("", None)
    /\ searches = 0
    /\ timeouts = 0
    /\ plays = 0
    /\ prev = [size |-> 0, code |-> 0, depth |-> 0, result |-> NoResult]
    /\ applied = 0


\* Lookup without the early return on a hit: the position is searched again
Lookup_alwaysMiss ==
    /\ Searching /\ Top.pc = "lookup"
    /\ LET result == NoResult
       IN  IF result # NoResult
           THEN /\ ret' = result
                /\ stack' = Pop
           ELSE /\ ret' = ret
                /\ stack' = SetTop([Top EXCEPT !.pc = "moves"])
    /\ UNCHANGED <<board, timelimit, tt, history_heuristic, mode, alarm,
                   board_copy, color, resp, searches, timeouts, plays, prev, applied>>

\* ------------------------------------------------- negamax_boolean
\* result = tt.lookup(board.code()); if result is not None: return result
Lookup ==
    /\ Searching /\ Top.pc = "lookup"
    /\ LET result == tt_lookup(TT, code(board))
       IN  IF result # NoResult
           THEN /\ ret' = result
                /\ stack' = Pop
           ELSE /\ ret' = ret
                /\ stack' = SetTop([Top EXCEPT !.pc = "moves"])
    /\ UNCHANGED <<board, timelimit, tt, history_heuristic, mode, alarm,
                   board_copy, color, resp, searches, timeouts, plays, prev, applied>>

\* moves = generate_legal_moves(board, board.current_player); moves.sort(...)
Generate ==
    /\ Searching /\ Top.pc = "moves"
    /\ stack' = SetTop([Top EXCEPT
            !.moves = SortByHistory(
                          generate_legal_moves(board, board.current_player), HH),
            !.i = 0,
            !.pc = "for"])
    /\ UNCHANGED <<board, timelimit, tt, history_heuristic, mode, ret, alarm,
                   board_copy, color, resp, searches, timeouts, plays, prev, applied>>

\* Play with the recursive call given depth instead of depth + 1
Play_sameDepth ==
    /\ Searching /\ Top.pc = "for" /\ Top.i < Len(Top.moves)
    /\ LET move == Top.moves[Top.i + 1]
       IN  /\ board' = play_move(board, move, board.current_player)
           /\ stack' = Append(SetTop([Top EXCEPT !.i = Top.i + 1, !.pc = "called"]),
                              Frame(Top.depth))
    /\ UNCHANGED <<timelimit, tt, history_heuristic, mode, ret, alarm,
                   board_copy, color, resp, searches, timeouts, plays, prev>>
    /\ applied' = applied + 1

\* Play with the call board.play_move(move, board.current_player) left out:
\* the recursive call is made on the same position
Play_noFill ==
    /\ Searching /\ Top.pc = "for" /\ Top.i < Len(Top.moves)
    /\ LET move == Top.moves[Top.i + 1]
       IN  /\ board' = board
           /\ stack' = Append(SetTop([Top EXCEPT !.i = Top.i + 1, !.pc = "called"]),
                              Frame(Top.depth + 1))
    /\ UNCHANGED <<timelimit, tt, history_heuristic, mode, ret, alarm,
                   board_copy, color, resp, searches, timeouts, plays, prev>>
    /\ applied' = applied + 1

\* for move in moves: board.play_move(move, board.current_player), then the
\* recursive call negamax_boolean(board, tt, history_table, depth + 1)
Play ==
    /\ Searching /\ Top.pc = "for" /\ Top.i < Len(Top.moves)
    /\ LET move == Top.moves[Top.i + 1]
       IN  /\ board' = play_move(board, move, board.current_player)
           /\ stack' = Append(SetTop([Top EXCEPT !.i = Top.i + 1, !.pc = "called"]),
                              Frame(Top.depth + 1))
    /\ UNCHANGED <<timelimit, tt, history_heuristic, mode, ret, alarm,
                   board_copy, color, resp, searches, timeouts, plays, prev>>
    /\ applied' = applied + 1

\* Undo with the call board.undoMove(move) left out
Undo_noUndo ==
    /\ Searching /\ Top.pc = "called" /\ ret # NoResult
    /\ LET move == Top.moves[Top.i]
           success == ~ret[1]
       IN  /\ board' = board
           /\ stack' = SetTop([Top EXCEPT !.success = success,
                                          !.pc = IF success THEN "update" ELSE "for"])
    /\ ret' = NoResult
    /\ UNCHANGED <<timelimit, tt, history_heuristic, mode, alarm,
                   board_copy, color, resp, searches, timeouts, plays, prev, applied>>

\* Undo with the "not" of "success = not ..." left out
Undo_noNegate ==
    /\ Searching /\ Top.pc = "called" /\ ret # NoResult
    /\ LET move == Top.moves[Top.i]
           success == ret[1]
       IN  /\ board' = undoMove(board, move)
           /\ stack' = SetTop([Top EXCEPT !.success = success,
                                          !.pc = IF success THEN "update" ELSE "for"])
    /\ ret' = NoResult
    /\ UNCHANGED <<timelimit, tt, history_heuristic, mode, alarm,
                   board_copy, color, resp, searches, timeouts, plays, prev, applied>>

\* Undo with board.undoMove(move) moved under "if success:"
Undo_onlyOnSuccess ==
    /\ Searching /\ Top.pc = "called" /\ ret # NoResult
    /\ LET move == Top.moves[Top.i]
           success == ~ret[1]
       IN  /\ board' = IF success THEN undoMove(board, move) ELSE board
           /\ stack' = SetTop([Top EXCEPT !.success = success,
                                          !.pc = IF success THEN "update" ELSE "for"])
    /\ ret' = NoResult
    /\ UNCHANGED <<timelimit, tt, history_heuristic, mode, alarm,
                   board_copy, color, resp, searches, timeouts, plays, prev, applied>>

\* success = not <the recursive call's result>[0]; board.undoMove(move)
Undo ==
    /\ Searching /\ Top.pc = "called" /\ ret # NoResult
    /\ LET move == Top.moves[Top.i]
           success == ~ret[1]
       IN  /\ board' = undoMove(board, move)
           /\ stack' = SetTop([Top EXCEPT !.success = success,
                                          !.pc = IF success THEN "update" ELSE "for"])
    /\ ret' = NoResult
    /\ UNCHANGED <<timelimit, tt, history_heuristic, mode, alarm,
                   board_copy, color, resp, searches, timeouts, plays, prev, applied>>

\* if success: history_table.update(move, depth)
Update ==
    /\ Searching /\ Top.pc = "update"
    /\ history_heuristic' = [history_heuristic EXCEPT
            ![board.size] = hh_update(HH, Top.moves[Top.i], Top.depth)]
    /\ stack' = SetTop([Top EXCEPT !.pc = "store"])
    /\ UNCHANGED <<board, timelimit, tt, mode, ret, alarm,
                   board_copy, color, resp, searches, timeouts, plays, prev, applied>>

\* store_result called before the move is undone: the key is the code of the
\* position after the move
store_result_beforeUndo(table, bd, result, move) == 
    tt_store(table, code(play_move(bd, move, bd.current_player)), result, move)

\* store_result(tt, board, result, move): tt.store(board.code(), result, move)
store_result(table, bd, result, move) == tt_store(table, code(bd), result, move)

\* StoreTrue as "return True, move": nothing is stored
StoreTrue_noStore ==
    /\ Searching /\ Top.pc = "store"
    /\ tt' = tt
    /\ ret' = <<TRUE, Top.moves[Top.i]>>
    /\ stack' = Pop
    /\ UNCHANGED <<board, timelimit, history_heuristic, mode, alarm,
                   board_copy, color, resp, searches, timeouts, plays, prev, applied>>

\* StoreTrue as "return store_result(tt, board, True, None)"
StoreTrue_noMove ==
    /\ Searching /\ Top.pc = "store"
    /\ tt' = [tt EXCEPT ![board.size] = store_result(TT, board, TRUE, None)]
    /\ ret' = <<TRUE, Top.moves[Top.i]>>
    /\ stack' = Pop
    /\ UNCHANGED <<board, timelimit, history_heuristic, mode, alarm,
                   board_copy, color, resp, searches, timeouts, plays, prev, applied>>

\* return store_result(tt, board, True, move)
StoreTrue ==
    /\ Searching /\ Top.pc = "store"
    /\ tt' = [tt EXCEPT ![board.size] = store_result(TT, board, TRUE, Top.moves[Top.i])]
    /\ ret' = <<TRUE, Top.moves[Top.i]>>
    /\ stack' = Pop
    /\ UNCHANGED <<board, timelimit, history_heuristic, mode, alarm,
                   board_copy, color, resp, searches, timeouts, plays, prev, applied>>

\* StoreFalse as "return False, None": nothing is stored
StoreFalse_noStore ==
    /\ Searching /\ Top.pc = "for" /\ Top.i = Len(Top.moves)
    /\ tt' = tt
    /\ ret' = <<FALSE, None>>
    /\ stack' = Pop
    /\ UNCHANGED <<board, timelimit, history_heuristic, mode, alarm,
                   board_copy, color, resp, searches, timeouts, plays, prev, applied>>

\* return store_result(tt, board, False, None), once the loop is exhausted
StoreFalse ==
    /\ Searching /\ Top.pc = "for" /\ Top.i = Len(Top.moves)
    /\ tt' = [tt EXCEPT ![board.size] = store_result(TT, board, FALSE, None)]
    /\ ret' = <<FALSE, None>>
    /\ stack' = Pop
    /\ UNCHANGED <<board, timelimit, history_heuristic, mode, alarm,
                   board_copy, color, resp, searches, timeouts, plays, prev, applied>>


\* ------------------------------------------------- command handlers
\* the arguments a timelimit command is given
TimeArgs == {0, 1, 100, 101}

\* timelimit_cmf with the lower limit off by one
timelimit_cmf_fromZero(a) ==
    /\ mode = "idle"
    /\ IF a >= 0 /\ a <= 100
       THEN /\ timelimit' = a
            /\ resp' = Response("", None)
       ELSE UNCHANGED <<timelimit, resp>>
    /\ UNCHANGED <<board, tt, history_heuristic, mode, stack, ret, alarm,
                   board_copy, color, searches, timeouts, plays, prev, applied>>

\* timelimit_cmf: a = int(args[0]); only a value in 1..100 is kept (and answered)
timelimit_cmf(a) ==
    /\ mode = "idle"
    /\ IF a >= 1 /\ a <= 100
       THEN /\ timelimit' = a
            /\ resp' = Response("", None)
       ELSE UNCHANGED <<timelimit, resp>>
    /\ UNCHANGED <<board, tt, history_heuristic, mode, stack, ret, alarm,
                   board_copy, color, searches, timeouts, plays, prev, applied>>

\* reset as its two commented-out lines would have it: the tables are made
\* anew on every reset
reset_fresh(size) ==
    /\ IF TRUE
       THEN /\ tt' = [s \in DOMAIN tt \cup {size} |->
                         IF s = size THEN << >> ELSE tt[s]]
            /\ history_heuristic' = [s \in DOMAIN history_heuristic \cup {size} |->
                         IF s = size THEN << >> ELSE history_heuristic[s]]
       ELSE UNCHANGED <<tt, history_heuristic>>
    /\ board' = EmptyBoard(size)

\* reset(size): the tables of a size are made when the size is first seen
reset(size) ==
    /\ IF size \notin DOMAIN tt
       THEN /\ tt' = [s \in DOMAIN tt \cup {size} |->
                         IF s = size THEN << >> ELSE tt[s]]
            /\ history_heuristic' = [s \in DOMAIN history_heuristic \cup {size} |->
                         IF s = size THEN << >> ELSE history_heuristic[s]]
       ELSE UNCHANGED <<tt, history_heuristic>>
    /\ board' = EmptyBoard(size)

\* boardsize_cmd: self.reset(int(args[0]))
boardsize_cmd(size) ==
    /\ mode = "idle"
    /\ reset(size)
    /\ resp' = Response("", None)
    /\ UNCHANGED <<timelimit, mode, stack, ret, alarm, board_copy, color,
                   searches, timeouts, plays, prev, applied>>

\* clear_board_cmd: self.reset(self.board.size)
clear_board_cmd ==
    /\ mode = "idle"
    /\ reset(board.size)
    /\ resp' = Response("", None)
    /\ UNCHANGED <<timelimit, mode, stack, ret, alarm, board_copy, color,
                   searches, timeouts, plays, prev, applied>>

\* play_cmd: a stone of either colour on a point of the board
play_cmd(c, p) ==
    /\ mode = "idle"
    /\ IF is_legal(board, p, c)
       THEN /\ plays < MaxPlays
            /\ board' = play_move(board, p, c)
            /\ resp' = Response("", None)
            /\ plays' = plays + 1
       ELSE /\ board' = board
            /\ resp' = Response("illegal move", None)
            /\ plays' = plays
    /\ UNCHANGED <<timelimit, tt, history_heuristic, mode, stack, ret, alarm,
                   board_copy, color, searches, timeouts, prev, applied>>

\* genmove_cmd up to the call negamax_boolean(self.board, ..., 0)
GenmoveStart(c) ==
    /\ mode = "idle" /\ searches < MaxSearches
    /\ mode' = "genmove"
    /\ color' = c
    /\ stack' = <<Frame(0)>>
    /\ ret' = NoResult
    /\ searches' = searches + 1
    /\ UNCHANGED <<board, timelimit, tt, history_heuristic, alarm, board_copy,
                   resp, timeouts, plays, prev>>
    /\ applied' = 0

\* GenmoveRespond without the test board.is_legal(move, color)
GenmoveRespond_noLegalCheck ==
    /\ mode = "genmove" /\ stack = << >> /\ ret # NoResult
    /\ LET move == ret[2]
       IN  IF move = None
           THEN /\ resp' = Response("resign", None)
                /\ board' = board
           ELSE IF TRUE
                THEN /\ board' = play_move(board, move, color)
                     /\ resp' = Response("move", move)
                ELSE /\ resp' = Response("resign", None)
                     /\ board' = board
    /\ mode' = "idle"
    /\ ret' = NoResult
    /\ UNCHANGED <<timelimit, tt, history_heuristic, stack, alarm, board_copy,
                   color, searches, timeouts, plays>>
    /\ prev' = [size |-> board.size, code |-> code(board), depth |-> 0, result |-> ret]
    /\ applied' = 0

\* genmove_cmd from the solver's return on
GenmoveRespond ==
    /\ mode = "genmove" /\ stack = << >> /\ ret # NoResult
    /\ LET move == ret[2]
       IN  IF move = None
           THEN /\ resp' = Response("resign", None)
                /\ board' = board
           ELSE IF is_legal(board, move, color)
                THEN /\ board' = play_move(board, move, color)
                     /\ resp' = Response("move", move)
                ELSE /\ resp' = Response("resign", None)
                     /\ board' = board
    /\ mode' = "idle"
    /\ ret' = NoResult
    /\ UNCHANGED <<timelimit, tt, history_heuristic, stack, alarm, board_copy,
                   color, searches, timeouts, plays>>
    /\ prev' = [size |-> board.size, code |-> code(board), depth |-> 0, result |-> ret]
    /\ applied' = 0

\* solve up to the call negamax_boolean(self.board, ..., steps): the snapshot
\* is taken and the alarm armed
SolveStart ==
    /\ mode = "idle" /\ searches < MaxSearches
    /\ mode' = "solve"
    /\ board_copy' = board
    /\ alarm' = TRUE
    /\ stack' = <<Frame(count_steps(board))>>
    /\ ret' = NoResult
    /\ searches' = searches + 1
    /\ UNCHANGED <<board, timelimit, tt, history_heuristic, color, resp, timeouts, plays, prev>>
    /\ applied' = 0

\* the colour letter solve writes
ColorName(c) == IF c = BLACK THEN "b" ELSE "w"

\* SolveRespond naming the player to move in both branches
SolveRespond_moverColor ==
    /\ mode = "solve" /\ stack = << >> /\ ret # NoResult
    /\ alarm' = FALSE
    /\ LET move == ret[2]
       IN  IF move # None
           THEN resp' = Response(ColorName(board.current_player), move)
           ELSE resp' = Response(ColorName(board.current_player), None)
    /\ mode' = "idle"
    /\ ret' = NoResult
    /\ UNCHANGED <<board, timelimit, tt, history_heuristic, stack, board_copy,
                   color, searches, timeouts, plays>>
    /\ prev' = [size |-> board.size, code |-> code(board),
                depth |-> count_steps(board), result |-> ret]
    /\ applied' = 0

\* SolveRespond without the call signal.alarm(0) of the try block
SolveRespond_noDisarm ==
    /\ mode = "solve" /\ stack = << >> /\ ret # NoResult
    /\ alarm' = alarm
    /\ LET move == ret[2]
       IN  IF move # None
           THEN resp' = Response(ColorName(board.current_player), move)
           ELSE resp' = Response(ColorName(opponent(board.current_player)), None)
    /\ mode' = "idle"
    /\ ret' = NoResult
    /\ UNCHANGED <<board, timelimit, tt, history_heuristic, stack, board_copy,
                   color, searches, timeouts, plays>>
    /\ prev' = [size |-> board.size, code |-> code(board),
                depth |-> count_steps(board), result |-> ret]
    /\ applied' = 0

\* solve from the solver's return on: signal.alarm(0) and the verdict
SolveRespond ==
    /\ mode = "solve" /\ stack = << >> /\ ret # NoResult
    /\ alarm' = FALSE
    /\ LET move == ret[2]
       IN  IF move # None
           THEN resp' = Response(ColorName(board.current_player), move)
           ELSE resp' = Response(ColorName(opponent(board.current_player)), None)
    /\ mode' = "idle"
    /\ ret' = NoResult
    /\ UNCHANGED <<board, timelimit, tt, history_heuristic, stack, board_copy,
                   color, searches, timeouts, plays>>
    /\ prev' = [size |-> board.size, code |-> code(board),
                depth |-> count_steps(board), result |-> ret]
    /\ applied' = 0

\* Timeout with the assignment self.board = board_copy left out
Timeout_keepBoard ==
    /\ alarm /\ timeouts < MaxTimeouts
    /\ alarm' = FALSE
    /\ IF mode = "solve"
       THEN /\ resp' = Response("unknown", None)
            /\ board' = board
            /\ mode' = "idle"
       ELSE /\ mode' = "dead"
            /\ UNCHANGED <<resp, board>>
    /\ stack' = << >>
    /\ ret' = NoResult
    /\ timeouts' = timeouts + 1
    /\ UNCHANGED <<timelimit, tt, history_heuristic, board_copy, color, searches, plays, prev>>
    /\ applied' = 0

\* SIGALRM, delivered whenever the timer is armed: handler raises
\* TimeoutError in whatever statement is running. Inside solve's try the frames
\* of negamax_boolean are unwound and the except clause runs; anywhere else
\* nothing catches the error, get_cmd raises it again and the process ends
Timeout ==
    /\ alarm /\ timeouts < MaxTimeouts
    /\ alarm' = FALSE
    /\ IF mode = "solve"
       THEN /\ resp' = Response("unknown", None)
            /\ board' = board_copy
            /\ mode' = "idle"
       ELSE /\ mode' = "dead"
            /\ UNCHANGED <<resp, board>>
    /\ stack' = << >>
    /\ ret' = NoResult
    /\ timeouts' = timeouts + 1
    /\ UNCHANGED <<timelimit, tt, history_heuristic, board_copy, color, searches, plays, prev>>
    /\ applied' = 0

Next ==
    \/ Lookup
    \/ Generate
    \/ Play
    \/ Undo
    \/ Update
    \/ StoreTrue
    \/ StoreFalse
    \/ \E a \in TimeArgs : timelimit_cmf(a)
    \/ \E s \in Sizes : boardsize_cmd(s)
    \/ clear_board_cmd
    \/ \E c \in {BLACK, WHITE} : \E p \in Points(board.size) : play_cmd(c, p)
    \/ \E c \in {BLACK, WHITE} : GenmoveStart(c)
    \/ GenmoveRespond
    \/ SolveStart
    \/ SolveRespond
    \/ Timeout

Spec == Init /\ [][Next]_vars

\* the statements of the command in progress: the interpreter runs them one
\* after the other for as long as there is a next one, whatever the timer does
Run ==
    \/ Lookup
    \/ Generate
    \/ Play
    \/ Undo
    \/ Update
    \/ StoreTrue
    \/ StoreFalse
    \/ GenmoveRespond
    \/ SolveRespond

\* ------------------------------------------------- a search late in a game
\* the boards of size LateSize on which "boardsize LateSize" and legal play
\* commands have filled every point but the first LateEmpty: every block has a liberty
\* (no stone was captured, none was suicide) and the player to move is the
\* opponent of a colour on the board, the one of the last stone played
LateBoards ==
    {bd \in [size : {LateSize},
             board : [Points(LateSize) -> {EMPTY, BLACK, WHITE}],
             current_player : {BLACK, WHITE}] :
        /\ \A p \in Points(LateSize) : bd.board[p] = EMPTY <=> p <= LateEmpty
        /\ \A p \in Points(LateSize) :
               bd.board[p] # EMPTY => HasLiberty(bd.board, LateSize, p)
        /\ \E p \in Points(LateSize) : bd.board[p] = opponent(bd.current_player)}

\* the connection after those commands; the tables of the size are the empty
\* ones reset made, and one solve or genmove is still to come
InitLate ==
    /\ board \in LateBoards
    /\ timelimit = 1
    /\ tt = [s \in {InitSize, LateSize} |-> << >>]
    /\ history_heuristic = [s \in {InitSize, LateSize} |-> << >>]
    /\ mode = "idle"
    /\ stack = << >>
    /\ ret = NoResult
    /\ alarm = FALSE
    /\ board_copy = EmptyBoard(InitSize)
    /\ color = BLACK
    /\ resp = Response("", None)
    /\ searches = MaxSearches - 1
    /\ timeouts = 0
    /\ plays = MaxPlays
    /\ prev = [size |-> 0, code |-> 0, depth |-> 0, result |-> NoResult]
    /\ applied = 0

NextLate ==
    \/ Lookup
    \/ Generate
    \/ Play
    \/ Undo
    \/ Update
    \/ StoreTrue
    \/ StoreFalse
    \/ \E c \in {BLACK, WHITE} : GenmoveStart(c)
    \/ GenmoveRespond
    \/ SolveStart
    \/ SolveRespond
    \/ Timeout

SpecLate == InitLate /\ [][NextLate]_vars

\* the late-game search with the command in progress always taking its next
\* step; nothing is assumed about the signal being delivered
FairSpecLate == SpecLate /\ WF_vars(Run)


\* ------------------------------------------------- an uninterrupted run
\* negamax_boolean(board, tt, history_table, depth) run to its return with no
\* signal delivered, as a function of its arguments: the pair it returns and
\* the two tables as it leaves them. TryMoves is the loop "for move in moves"
\* from the k-th move on.
RECURSIVE NegaFn(_, _, _, _)
RECURSIVE TryMoves(_, _, _, _, _, _)

\* TryMoves for a loop that gives up after its first move: "return
\* store_result(tt, board, False, None)" indented into the loop body
TryMoves_firstOnly(bd, moves, k, table, hist, depth) ==
    IF k > Len(moves)
    THEN [ret |-> <<FALSE, None>>,
          tt |-> store_result(table, bd, FALSE, None), hh |-> hist]
    ELSE LET move == moves[k]
             sub == NegaFn(play_move(bd, move, bd.current_player), table, hist,
                           depth + 1)
             success == ~sub.ret[1]
         IN  IF success
             THEN [ret |-> <<TRUE, move>>,
                   tt |-> store_result(sub.tt, bd, TRUE, move),
                   hh |-> hh_update(sub.hh, move, depth)]
             ELSE [ret |-> <<FALSE, None>>,
                   tt |-> store_result(sub.tt, bd, FALSE, None), hh |-> sub.hh]

TryMoves(bd, moves, k, table, hist, depth) ==
    IF k > Len(moves)
    THEN [ret |-> <<FALSE, None>>,
          tt |-> store_result(table, bd, FALSE, None), hh |-> hist]
    ELSE LET move == moves[k]
             sub == NegaFn(play_move(bd, move, bd.current_player), table, hist,
                           depth + 1)
             success == ~sub.ret[1]
         IN  IF success
             THEN [ret |-> <<TRUE, move>>,
                   tt |-> store_result(sub.tt, bd, TRUE, move),
                   hh |-> hh_update(sub.hh, move, depth)]
             ELSE TryMoves(bd, moves, k + 1, sub.tt, sub.hh, depth)

NegaFn(bd, table, hist, depth) ==
    LET result == tt_lookup(table, code(bd))
    IN  IF result # NoResult
        THEN [ret |-> result, tt |-> table, hh |-> hist]
        ELSE TryMoves(bd,
                      SortByHistory(generate_legal_moves(bd, bd.current_player), hist),
                      1, table, hist, depth)


\* ------------------------------------------------- reference semantics
\* the game-theoretic value: the player to move wins iff some legal move leads
\* to a position the opponent does not win
RECURSIVE WinRec(_)
WinRec(bd) ==
    \E p \in Points(bd.size) :
        /\ is_legal(bd, p, bd.current_player)
        /\ ~WinRec(play_move(bd, p, bd.current_player))

\* every way to fill a board of one of the sizes, with either player to move
AllPositions ==
    UNION {[size : {n}, board : [Points(n) -> {EMPTY, BLACK, WHITE}],
            current_player : {BLACK, WHITE}] : n \in Sizes \cup {InitSize}}

\* the positions the player to move wins
WonPositions == {bd \in AllPositions : WinRec(bd)}

Win(bd) == bd \in WonPositions

\* the entry e is exact for the position bd: (True, m) means m is legal for
\* the player to move and the opponent does not win the position after m;
\* (False, None) means the opponent wins after every legal move
Exact(bd, e) ==
    IF e[1]
    THEN /\ is_legal(bd, e[2], bd.current_player)
         /\ ~Win(play_move(bd, e[2], bd.current_player))
    ELSE /\ e[2] = None
         /\ \A p \in Points(bd.size) :
                is_legal(bd, p, bd.current_player) =>
                    Win(play_move(bd, p, bd.current_player))

\* every (size, code, entry) in which the entry is exact for each position of
\* that size with that code
ExactEntries ==
    LET candidates ==
            UNION {{<<bd.size, code(bd), <<b, m>>>> :
                       b \in BOOLEAN, m \in {None} \cup Points(bd.size)} :
                      bd \in AllPositions}
    IN  {x \in candidates :
            \A bd \in AllPositions :
                (bd.size = x[1] /\ code(bd) = x[2]) => Exact(bd, x[3])}

\* the solver has returned to the frame or command that called it
Returned == mode \in {"solve", "genmove"} /\ ret # NoResult

\* a solve command has written its answer and nothing ran since
SolveAnswered == mode = "idle" /\ resp.text \in {"b", "w", "unknown"}

\* ------------------------------------------------------------- claims
\* C1: board integrity. After every solve command, finished normally or cut
\* off by the deadline at any point of the search, the board (position and
\* player to move) is what it was when the command started.
BoardIntegrity == SolveAnswered => board = board_copy /\ code(board) = code(board_copy)

\* a solve that was cut off in the middle of the search, after entries were stored
BoardIntegrityWitness ==
    /\ SolveAnswered /\ resp.text = "unknown"
    /\ TT # << >> /\ code(board) \notin DOMAIN TT
    /\ board = board_copy

\* C2: negamax correctness. Whenever a frame of negamax_boolean returns, its
\* solved flag is the game-theoretic value of the position it was called on,
\* whatever the tables held from earlier (also interrupted) invocations.
NegamaxCorrect == Returned => (ret[1] <=> Win(board))

\* a frame below the root answers "win" after an earlier solve was cut off
NegamaxCorrectWitness ==
    /\ Returned /\ ret[1] /\ Win(board)
    /\ Len(stack) >= 1 /\ timeouts >= 1

\* C3: timeout outcome. The step taken when the deadline fires ends the search
\* (no frame is left to apply a move, store an entry or update the history),
\* changes neither table, puts the snapshot in place of the board, disarms
\* the timer and answers "unknown" with no move.
TimeoutOutcome ==
    [][timeouts' # timeouts =>
          /\ stack' = << >> /\ mode' = "idle" /\ ret' = NoResult
          /\ tt' = tt /\ history_heuristic' = history_heuristic
          /\ board' = board_copy
          /\ alarm' = FALSE
          /\ resp' = Response("unknown", None)]_vars

\* a solve cut off after the search had stored a winning move: the answer is
\* "unknown", the timer is off and no frame is left
TimeoutOutcomeWitness ==
    /\ mode = "idle" /\ resp = Response("unknown", None) /\ timeouts = 1
    /\ ~alarm /\ stack = << >>
    /\ \E c \in DOMAIN TT : TT[c][1]


\* a solve command has written a verdict (the search finished before the deadline)
SolveVerdict == mode = "idle" /\ resp.text \in {"b", "w"}

\* C4 as stated: the verdict names the colour of the player to move, with a
\* winning move when that player wins and with no move when that player loses.
SolveVerdictMover ==
    SolveVerdict =>
        /\ resp.text = ColorName(board.current_player)
        /\ (resp.move # None <=> Win(board))

\* C4 as amended: the verdict names the winner. When the player to move wins
\* it is that player's colour with a winning move; when the player to move
\* loses it is the opponent's colour with no move.
SolveVerdictWinner ==
    SolveVerdict =>
        IF Win(board)
        THEN /\ resp.text = ColorName(board.current_player)
             /\ is_legal(board, resp.move, board.current_player)
             /\ ~Win(play_move(board, resp.move, board.current_player))
        ELSE /\ resp.text = ColorName(opponent(board.current_player))
             /\ resp.move = None

\* a solve on a position the player to move loses: the opponent's colour alone
SolveVerdictWitness ==
    /\ SolveVerdict /\ ~Win(board)
    /\ resp = Response(ColorName(opponent(board.current_player)), None)
    /\ generate_legal_moves(board, board.current_player) # << >>

\* C5: terminal position. A frame called on a position whose player to move
\* has no legal move returns (False, None), and (False, None) is then the
\* entry under that position's code.
TerminalLoss ==
    (Returned /\ generate_legal_moves(board, board.current_player) = << >>) =>
        /\ ret = <<FALSE, None>>
        /\ code(board) \in DOMAIN TT
        /\ TT[code(board)] = <<FALSE, None>>

\* a frame deep in the search returns from a position with no legal move
TerminalLossWitness ==
    /\ Returned /\ generate_legal_moves(board, board.current_player) = << >>
    /\ Len(stack) >= 2 /\ ret = <<FALSE, None>>

\* C6: idempotence through memoization. When the solver returns from a root
\* call on the position on which the previous root call returned, it returns
\* the same (solved, move) pair, whatever the depth argument, and has applied
\* no move.
Idempotent ==
    (Returned /\ stack = << >> /\ prev.result # NoResult
        /\ prev.size = board.size /\ prev.code = code(board)) =>
        /\ ret = prev.result
        /\ applied = 0

\* a genmove (depth 0) repeats the call a solve made with depth 1 and gets the
\* stored pair without applying a move
IdempotentWitness ==
    /\ Returned /\ stack = << >> /\ prev.result # NoResult
    /\ prev.size = board.size /\ prev.code = code(board)
    /\ mode = "genmove" /\ prev.depth > 0 /\ ret = prev.result /\ applied = 0

\* C7: transposition-table correctness. Every entry of every table is exact
\* for the position whose code is its key: (True, m) means m is legal for the
\* player to move and the opponent loses the position after m; (False, None)
\* means the player to move has no move after which the opponent loses.
TableExact ==
    \A size \in DOMAIN tt : \A c \in DOMAIN tt[size] :
        <<size, c, tt[size][c]>> \in ExactEntries

\* after a solve was cut off, a later search has added to the partial table
\* and it holds both kinds of entry
TableExactWitness ==
    /\ timeouts >= 1 /\ searches >= 2 /\ mode = "genmove"
    /\ \E c \in DOMAIN TT : TT[c][1]
    /\ \E c \in DOMAIN TT : ~TT[c][1]
    /\ Len(stack) >= 2


\* the score of a move in the history table of a size, 0 when there is none
Score(tables, size, m) ==
    IF size \in DOMAIN tables THEN hh_lookup(tables[size], m) ELSE 0

\* the scores never decrease, and a score increases only in the history update
\* of the innermost frame, for the move that frame has just found to win
HistoryStep ==
    \A size \in DOMAIN history_heuristic' : \A m \in Points(size) :
        /\ Score(history_heuristic', size, m) >= Score(history_heuristic, size, m)
        /\ Score(history_heuristic', size, m) > Score(history_heuristic, size, m) =>
              /\ Searching /\ Top.pc = "update" /\ Top.success
              /\ size = board.size /\ m = Top.moves[Top.i]
              /\ Score(history_heuristic', size, m) =
                     Score(history_heuristic, size, m) + Top.depth * Top.depth
              /\ stack' = SetTop([Top EXCEPT !.pc = "store"])

\* C8 as stated: history[move] never decreases and increases only in a frame
\* that returns that move as its winning move; a frame that has added to the
\* score of its move goes on to return (True, move).
HistoryOnlyInReturningFrame ==
    [][/\ HistoryStep
       /\ (Searching /\ Top.pc = "store" /\ Top.depth > 0) =>
              ret' = <<TRUE, Top.moves[Top.i]>>]_vars

\* C8 as amended: history[move] never decreases, and it increases only in a
\* frame that has found that move to win (the recursive call on the position
\* after it returned "not solved"), by the square of the frame's depth; that
\* frame's next statement returns (True, move), unless the deadline signal
\* ends the search first.
HistoryMonotone ==
    [][/\ HistoryStep
       /\ (Searching /\ Top.pc = "store") =>
              \/ ret' = <<TRUE, Top.moves[Top.i]>>
              \/ (timeouts' # timeouts /\ stack' = << >>)]_vars

\* a frame below the root has just raised the score of its winning move
HistoryMonotoneWitness ==
    /\ Searching /\ Top.pc = "store" /\ Top.success /\ Len(stack) >= 2
    /\ hh_lookup(HH, Top.moves[Top.i]) >= Top.depth * Top.depth
    /\ Top.depth > 0

\* C9: genmove answers with the move m, and plays it for the colour asked,
\* exactly when the solver returned (True, m) and m is legal for that colour;
\* otherwise it answers "resign" and leaves the board alone.
GenmoveAnswer ==
    [][(mode = "genmove" /\ mode' = "idle") =>
          IF ret[1] /\ is_legal(board, ret[2], color)
          THEN /\ resp' = Response("move", ret[2])
               /\ board' = play_move(board, ret[2], color)
          ELSE /\ resp' = Response("resign", None)
               /\ board' = board]_vars

\* genmove has resigned on a position the player to move wins: the stored
\* winning move is not legal for the colour asked
GenmoveAnswerWitness ==
    /\ mode = "idle" /\ resp = Response("resign", None)
    /\ code(board) \in DOMAIN TT /\ TT[code(board)][1]
    /\ ~is_legal(board, TT[code(board)][2], color)

\* C10: the time limit starts at 1 and is always in 1..100; a timelimit
\* command with a value in 1..100 sets it to that value, one with a value
\* outside leaves it unchanged, and nothing else changes it.
TimeLimitRange ==
    /\ timelimit = 1
    /\ [](timelimit \in 1 .. 100)
    /\ [][/\ \A a \in TimeArgs :
               timelimit_cmf(a) =>
                   timelimit' = (IF a \in 1 .. 100 THEN a ELSE timelimit)
          /\ timelimit' # timelimit => \E a \in TimeArgs : timelimit_cmf(a)]_vars

\* the time limit has been set to the largest value allowed
TimeLimitRangeWitness == timelimit = 100 /\ resp = Response("", None)

\* ---------------------------------------------------------------------------
\* C11 as stated: the tables of a size, once made, are never replaced, cleared
\* or removed, and every entry of either table stays present with the same
\* value
TablesFrozen ==
    [][\A s \in DOMAIN tt :
          /\ s \in DOMAIN tt' /\ s \in DOMAIN history_heuristic'
          /\ \A c \in DOMAIN tt[s] :
                c \in DOMAIN tt'[s] /\ tt'[s][c] = tt[s][c]
          /\ \A m \in DOMAIN history_heuristic[s] :
                /\ m \in DOMAIN history_heuristic'[s]
                /\ history_heuristic'[s][m] = history_heuristic[s][m]]_vars

\* C11: a transposition table and a history table for a size are made, empty,
\* when the size is first used, and from then on no step replaces, clears or
\* removes them: every transposition entry stays present with the same value,
\* and every history entry stays present with a score that is never lowered
TablesRetainedStep ==
    /\ DOMAIN tt' = DOMAIN tt \cup {board'.size}
    /\ DOMAIN history_heuristic' = DOMAIN tt'
    /\ \A s \in DOMAIN tt' \ DOMAIN tt :
          tt'[s] = << >> /\ history_heuristic'[s] = << >>
    /\ \A s \in DOMAIN tt :
          /\ \A c \in DOMAIN tt[s] :
                c \in DOMAIN tt'[s] /\ tt'[s][c] = tt[s][c]
          /\ \A m \in DOMAIN history_heuristic[s] :
                /\ m \in DOMAIN history_heuristic'[s]
                /\ history_heuristic'[s][m] >= history_heuristic[s][m]

TablesRetained ==
    /\ [](board.size \in DOMAIN tt /\ DOMAIN history_heuristic = DOMAIN tt)
    /\ [][TablesRetainedStep]_vars

\* the tables of both sizes hold entries while the board is back at the
\* first size: the size was left and entered again after searches on both
TablesRetainedWitness ==
    /\ mode = "idle" /\ board.size = InitSize
    /\ \A s \in Sizes : s \in DOMAIN tt /\ tt[s] # << >>
    /\ history_heuristic[InitSize] # << >>

\* ---------------------------------------------------------------------------
\* C12: once negamax_boolean has returned to solve with the timer not yet
\* fired, the next step disarms the timer and reports the solver's result,
\* never "unknown"
CompletionBeatsDeadline ==
    [][(mode = "solve" /\ stack = << >> /\ ret # NoResult /\ alarm)
          => /\ alarm' = FALSE
             /\ resp'.text # "unknown"
             /\ resp'.move = ret[2]]_vars

\* ---------------------------------------------------------------------------
\* the board with the moves taken back that frames 1..k have applied and not
\* yet undone: a frame at "called" has applied moves[i], every other frame has
\* undone all it applied
RECURSIVE UndoPending(_, _)
UndoPending(bd, k) ==
    IF k = 0 THEN bd
    ELSE LET f == stack[k]
         IN  UndoPending(IF f.pc = "called" THEN undoMove(bd, f.moves[f.i]) ELSE bd,
                         k - 1)

After(bd, m) == play_move(bd, m, bd.current_player)

\* moves is the list of the legal moves of bd in descending order of score,
\* moves of equal score in the order of enumeration (ascending points)
StableDescending(moves, bd, table) ==
    /\ Len(moves) = Len(generate_legal_moves(bd, bd.current_player))
    /\ {moves[k] : k \in 1..Len(moves)}
          = {p \in Points(bd.size) : is_legal(bd, p, bd.current_player)}
    /\ \A j \in 1..Len(moves) : \A k \in (j + 1)..Len(moves) :
          \/ hh_lookup(table, moves[j]) > hh_lookup(table, moves[k])
          \/ /\ hh_lookup(table, moves[j]) = hh_lookup(table, moves[k])
             /\ moves[j] < moves[k]

\* the frame on top has been through its moves up to a winning one: each move
\* before moves[i] leads to a position the opponent wins, moves[i] does not
FirstWinningFound ==
    /\ Top.i >= 1
    /\ ~WinRec(After(board, Top.moves[Top.i]))
    /\ \A k \in 1..(Top.i - 1) : WinRec(After(board, Top.moves[k]))

\* C14: on a table miss the frame takes the legal moves in descending order of
\* history score, ties in enumeration order; the move it returns is the first
\* in that order after which the opponent does not win; once that move is
\* found the frame applies no further move
FirstFoundStep ==
    /\ (Searching /\ Top.pc = "moves" /\ timeouts' = timeouts)
          => StableDescending(stack'[Len(stack')].moves, board, HH)
    /\ (Searching /\ Top.pc = "for" /\ Top.i < Len(Top.moves) /\ timeouts' = timeouts)
          => board' = After(board, Top.moves[Top.i + 1])
    /\ (Searching /\ Top.pc \in {"update", "store"})
          => /\ FirstWinningFound
             /\ timeouts' = timeouts =>
                   /\ board' = board /\ applied' = applied
                   /\ Top.pc = "store" => ret' = <<TRUE, Top.moves[Top.i]>>

FirstFound == [][FirstFoundStep]_vars

\* a frame is about to return a winning move it found after a move that did
\* not win, in a list the history scores have put out of enumeration order and
\* with a move left untried
FirstFoundWitness ==
    /\ Searching /\ Top.pc = "store"
    /\ Top.i >= 2 /\ Top.i < Len(Top.moves)
    /\ \E k \in 1..(Len(Top.moves) - 1) : Top.moves[k] > Top.moves[k + 1]

\* ---------------------------------------------------------------------------
\* history tables that order the moves of a board in other ways: none scored,
\* the highest point first, the odd points first
AltHistories(size) ==
    {<< >>, [p \in Points(size) |-> p], [p \in Points(size) |-> p % 2]}

\* C15: with the connection idle, on the board and with the transposition
\* table as the commands so far have left them, an uninterrupted solver run
\* returns the same solved boolean whatever the history table holds
OrderingIrrelevant ==
    mode = "idle" =>
        LET solved == NegaFn(board, TT, HH, 0).ret[1]
        IN  \A h \in AltHistories(board.size) :
                NegaFn(board, TT, h, 0).ret[1] = solved

\* after a search that was cut off left entries in the table, two runs on the
\* board that differ in the history table alone return different winning moves
OrderingIrrelevantWitness ==
    /\ mode = "idle" /\ TT # << >> /\ timeouts >= 1
    /\ \E h \in AltHistories(board.size) :
          /\ NegaFn(board, TT, h, 0).ret[1] /\ NegaFn(board, TT, HH, 0).ret[1]
          /\ NegaFn(board, TT, h, 0).ret[2] # NegaFn(board, TT, HH, 0).ret[2]

\* ---------------------------------------------------------------------------
\* the number of plies between the root frame of the search and the frame on top
Plies == Len(stack) - 1

\* the depth the command in progress gave the root frame: solve passes
\* board.count_steps() of the position it was called on, genmove passes 0
RootDepth == IF mode = "solve" THEN count_steps(board_copy) ELSE 0

\* the history update of the frame on top sets the score of its winning move
\* to the old score (0 when the move had none) plus d squared, and touches no
\* other score
IncrementBy(d) ==
    LET m == Top.moves[Top.i]
    IN  /\ m \in DOMAIN history_heuristic'[board.size]
        /\ history_heuristic'[board.size][m] = hh_lookup(HH, m) + d * d
        /\ \A k \in DOMAIN history_heuristic'[board.size] \ {m} :
              k \in DOMAIN HH /\ history_heuristic'[board.size][k] = HH[k]

\* C16 as stated: the increment is the square of the number of plies between
\* the root of the current solve or genmove and the frame (0 at the root)
HistoryIncrementPlies ==
    [][(Searching /\ Top.pc = "update" /\ timeouts' = timeouts)
          => IncrementBy(Plies)]_vars

\* C16: when a frame finds a winning move, that move's score grows by exactly
\* depth squared (it is set to depth squared if absent), where depth is the
\* depth given to the root frame plus the number of plies from the root to the
\* frame: the root depth is 0 under genmove and board.count_steps() under solve
HistoryIncrement ==
    [][(Searching /\ Top.pc = "update" /\ timeouts' = timeouts)
          => /\ Top.depth = RootDepth + Plies
             /\ IncrementBy(RootDepth + Plies)]_vars

\* under solve on a board with a stone on it, a frame below the root has
\* raised the score of its winning move by more than the square of its plies
HistoryIncrementWitness ==
    /\ mode = "solve" /\ Searching /\ Top.pc = "store" /\ Top.success
    /\ count_steps(board_copy) > 0 /\ Plies >= 1
    /\ hh_lookup(HH, Top.moves[Top.i]) >= (RootDepth + Plies) * (RootDepth + Plies)

\* ---------------------------------------------------------------------------
\* C17: in every transposition table every entry is a pair (solved, move) in
\* which move is none exactly when solved is false, and is a point of the
\* board otherwise
EntryShape ==
    \A s \in DOMAIN tt : \A c \in DOMAIN tt[s] :
        /\ Len(tt[s][c]) = 2
        /\ tt[s][c][1] \in BOOLEAN
        /\ tt[s][c][2] = None <=> ~tt[s][c][1]
        /\ tt[s][c][2] # None => tt[s][c][2] \in Points(s)

\* a table holds an entry of each kind
EntryShapeWitness ==
    /\ \E c \in DOMAIN TT : TT[c] = <<FALSE, None>>
    /\ \E c \in DOMAIN TT : TT[c][1] /\ TT[c][2] \in Points(board.size)

\* ---------------------------------------------------------------------------
\* the frame on top is at one of its two returns through store_result
AtStore ==
    /\ Searching
    /\ \/ Top.pc = "store"
       \/ Top.pc = "for" /\ Top.i = Len(Top.moves)

\* C18: over any sequence of commands the solver stores only under a position
\* code that has no entry yet: every change of a table adds exactly the one
\* new key of the board's code and leaves every existing entry as it was
WriteOnce ==
    [][/\ (AtStore /\ timeouts' = timeouts) =>
              /\ code(board) \notin DOMAIN TT
              /\ DOMAIN tt'[board.size] = DOMAIN TT \cup {code(board)}
       /\ \A s \in DOMAIN tt : \A c \in DOMAIN tt[s] : tt'[s][c] = tt[s][c]]_vars

\* the second search of a session is about to store a result, under a code
\* that has no entry, in a table that the first search has left entries in
WriteOnceWitness ==
    /\ AtStore /\ searches = MaxSearches
    /\ Cardinality(DOMAIN TT) >= 2
    /\ code(board) \notin DOMAIN TT

\* ---------------------------------------------------------------------------
\* the moves a frame has yet to apply are legal for the player to move on the
\* frame's board: play_move has no candidate to reject during a search
CandidatesLegal ==
    (Searching /\ Top.pc = "for") =>
        \A k \in (Top.i + 1)..Len(Top.moves) :
            is_legal(board, Top.moves[k], board.current_player)

\* ---------------------------------------------------------------------------
\* C20: whenever no solve command is executing no deadline timer is armed, so
\* the signal is delivered only while solve is executing: never during a
\* genmove search or another command, where nothing would catch the error
TimerConfined ==
    /\ [](mode # "solve" => ~alarm)
    /\ [](mode # "dead")
    /\ [][timeouts' # timeouts => mode = "solve"]_vars

\* a genmove search is under way after a solve that ran to its verdict, with
\* a signal still deliverable were a timer armed
TimerConfinedWitness ==
    /\ mode = "genmove" /\ Searching
    /\ resp.text \in {"b", "w"} /\ timeouts < MaxTimeouts
    /\ ~alarm

\* ---------------------------------------------------------------------------
\* the number of empty points of a board
Empties(bd) == Cardinality({p \in Points(bd.size) : bd.board[p] = EMPTY})

\* while solve is executing, a step either goes on with the search and writes
\* no response, or ends the command with its one response, a verdict or
\* "unknown"
AnswersOnceStep ==
    mode = "solve" =>
        \/ mode' = "solve" /\ resp' = resp
        \/ mode' = "idle" /\ stack' = << >> /\ resp'.text \in {"b", "w", "unknown"}

\* a move applied by a frame fills one more point of the board, so the depth
\* of the recursion stays within the empty points of the position searched
FillsPoint ==
    /\ (Searching /\ applied' = applied + 1) => Empties(board') = Empties(board) - 1
    /\ mode = "solve" => Len(stack) <= Empties(board_copy) + 1

\* C21: every solve command eventually finishes and emits exactly one
\* response, a verdict or "unknown"; an uninterrupted search ends by itself,
\* every applied move filling one more point of the board
SolveAnswersOnce ==
    /\ (mode = "solve") ~> (mode = "idle" /\ resp.text \in {"b", "w", "unknown"})
    /\ [][AnswersOnceStep /\ FillsPoint]_vars

\* a solve with the timer still armed has searched, three or more moves deep,
\* down to a position with no legal move
SolveAnswersOnceWitness ==
    /\ mode = "solve" /\ alarm
    /\ Len(stack) >= 4 /\ Top.pc = "for" /\ Top.moves = << >>

====
